---- MODULE Spec2Model ----
(***************************************************************************)
(* use-mobile-agent: the React hook useMobileAgent (src/use-mobile-agent.ts)*)
(* in its two variants, the one whose status record carries `combined` and  *)
(* returns through useMemo (lines 28-54) and the one without (lines 86-110).*)
(*                                                                          *)
(* Strings are sequences of one-character strings, so that the regular      *)
(* expressions of the effect body are matched character by character.       *)
(* Objects are records carrying a heap reference `ref`, so that identity    *)
(* (Object.is) is distinct from equality of the flags.  An application      *)
(* imports one of the two variants; every instance runs that one.           *)
(***************************************************************************)
EXTENDS Integers, Sequences, FiniteSets

VARIABLES
    navigator,      \* the runtime's ambient object: [userAgent, vendor]
    mounted,        \* mounted[i]: instance i is mounted
    variant,        \* which of the two hooks the application imports
    isWebView,      \* isWebView[i]: the useState cell (current state object)
    pendingState,   \* pendingState[i]: the update queued by setIsWebView
    effectPending,  \* effectPending[i]: the passive effect is scheduled
    memo,           \* memo[i]: the useMemo cell [deps, value]
    returned,       \* returned[i]: what the last render returned
    prevReturned,   \* prevReturned[i]: what the render before it returned
    effectRuns,     \* effectRuns[i]: executions of the effect body
    uaReads,        \* uaReads[i]: reads of navigator.userAgent
    effectError,    \* effectError[i]: the effect body threw
    log             \* every detection run: [input, ios, android]

vars == <<navigator, mounted, variant, isWebView, pendingState, effectPending,
          memo, returned, prevReturned, effectRuns, uaReads, effectError,
          log>>

-----------------------------------------------------------------------------
(* Bounds *)

MaxFrags == 3
NumInstances == 2
MaxEffectRuns == 2

Instances == 1..NumInstances

-----------------------------------------------------------------------------
(* JavaScript values: undefined and strings *)

JSUndefined == [type |-> "undefined", chars |-> <<>>]
JSString(cs) == [type |-> "string", chars |-> cs]

\* ToBoolean: undefined and the empty string are falsy
Truthy(x) == x.type = "string" /\ Len(x.chars) > 0

\* a ?? b: only undefined gives way, the empty string stays
NullishOr(a, b) == IF a.type = "undefined" THEN b ELSE a

\* a || b
Or(a, b) == IF Truthy(a) THEN a ELSE b

\* ToString, as RegExp.prototype.test applies it to its argument
ToString(x) ==
    IF x.type = "undefined"
    THEN <<"u", "n", "d", "e", "f", "i", "n", "e", "d">>
    ELSE x.chars

\* ToString throws only on a Symbol (or an object whose conversion throws)
ToStringThrows(x) == x.type \notin {"undefined", "string"}

-----------------------------------------------------------------------------
(* Regular expressions: a sequence of nodes, matched by backtracking *)

Digits == {"0", "1", "2", "3", "4", "5", "6", "7", "8", "9"}
\* the line terminators of ECMAScript that a user agent is built from here
\* (U+2028 and U+2029 are the other two)
LineTerminators == {"\n", "\r"}

\* character classes: [\d.] and . (no s flag: any character but a line terminator)
InClass(c, class) ==
    CASE class = "digitdot" -> c \in Digits \cup {"."}
      [] class = "any" -> c \notin LineTerminators

Lit(cs) == [k \in 1..Len(cs) |-> [kind |-> "lit", ch |-> cs[k], class |-> "none"]]
Plus(class) == <<[kind |-> "plus", ch |-> "", class |-> class]>>
Star(class) == <<[kind |-> "star", ch |-> "", class |-> class]>>

\* the longest run of characters of `class` in s from position i
RECURSIVE RunLength(_, _, _)
RunLength(s, i, class) ==
    IF i <= Len(s) /\ InClass(s[i], class)
    THEN 1 + RunLength(s, i + 1, class)
    ELSE 0

\* does re, from its node k, match s at position i
RECURSIVE MatchHere(_, _, _, _)
MatchHere(re, k, s, i) ==
    IF k > Len(re) THEN TRUE
    ELSE CASE re[k].kind = "lit" ->
                  /\ i <= Len(s)
                  /\ s[i] = re[k].ch
                  /\ MatchHere(re, k + 1, s, i + 1)
           [] re[k].kind = "plus" ->
                  \E n \in 1..RunLength(s, i, re[k].class) :
                      MatchHere(re, k + 1, s, i + n)
           [] re[k].kind = "star" ->
                  \E n \in 0..RunLength(s, i, re[k].class) :
                      MatchHere(re, k + 1, s, i + n)

\* re.test(x): no g or y flag, so the search starts at 0 and keeps no lastIndex
RegExpTest(re, x) ==
    LET s == ToString(x)
    IN  \E i \in 1..(Len(s) + 1) : MatchHere(re, 1, s, i)

AppleWebKit == <<"A", "p", "p", "l", "e", "W", "e", "b", "K", "i", "t">>
Safari == <<"S", "a", "f", "a", "r", "i">>
Wv == <<"w", "v">>
VersionSlash == <<"V", "e", "r", "s", "i", "o", "n", "/">>
Chrome == <<"C", "h", "r", "o", "m", "e">>

\* /Version\/[\d.]+Chrome/: Chrome directly after the version
ReVersionThenChrome == Lit(VersionSlash) \o Plus("digitdot") \o Lit(Chrome)

ReWv == Lit(Wv)
ReVersionChrome == Lit(VersionSlash) \o Plus("digitdot") \o Star("any") \o Lit(Chrome)
ReAppleWebKit == Lit(AppleWebKit)
ReSafari == Lit(Safari)

-----------------------------------------------------------------------------
(* The effect body *)

\* const userAgent = navigator.userAgent || navigator.vendor
UserAgentOf(nav) == Or(nav.userAgent, nav.vendor)

\* the `wv` test left out
IsAndroidWebViewLegacyOnly(userAgent) == RegExpTest(ReVersionChrome, userAgent)

\* one shared /wv/g: after a successful test its lastIndex is past the match,
\* and the next test of the same string fails
IsAndroidWebViewSticky(userAgent) ==
    \/ log = {} /\ RegExpTest(ReWv, userAgent)
    \/ RegExpTest(ReVersionChrome, userAgent)

IsAndroidWebView(userAgent) ==
    RegExpTest(ReWv, userAgent) \/ RegExpTest(ReVersionChrome, userAgent)

\* the `Safari` exclusion left out
IsIOSWebViewAnySafari(userAgent) == RegExpTest(ReAppleWebKit, userAgent)

IsIOSWebView(userAgent) ==
    RegExpTest(ReAppleWebKit, userAgent) /\ ~RegExpTest(ReSafari, userAgent)

\* combined: ios || android
NewStatusEither(v, ref, ios, android) ==
    IF v = "combined"
    THEN [ref |-> ref, ios |-> ios, android |-> android, combined |-> ios \/ android]
    ELSE [ref |-> ref, ios |-> ios, android |-> android]

\* the object literal handed to setIsWebView, allocated at `ref`
NewStatus(v, ref, ios, android) ==
    IF v = "combined"
    THEN [ref |-> ref, ios |-> ios, android |-> android, combined |-> ios /\ android]
    ELSE [ref |-> ref, ios |-> ios, android |-> android]

\* an initial state that presumes an iOS WebView
InitialStateIos(v, ref) ==
    IF v = "combined"
    THEN [ref |-> ref, ios |-> TRUE, android |-> FALSE, combined |-> FALSE]
    ELSE [ref |-> ref, ios |-> TRUE, android |-> FALSE]

\* the object literal handed to useState, allocated at `ref`
InitialState(v, ref) ==
    IF v = "combined"
    THEN [ref |-> ref, ios |-> FALSE, android |-> FALSE, combined |-> FALSE]
    ELSE [ref |-> ref, ios |-> FALSE, android |-> FALSE]

NoObject == [ref |-> 0]
NoMemo == [deps |-> 0, value |-> NoObject]

\* the references of the objects some hook cell or caller still holds
LiveRefs ==
    UNION {{isWebView[i].ref, pendingState[i].ref, returned[i].ref,
            prevReturned[i].ref, memo[i].deps, memo[i].value.ref} : i \in Instances}
        \ {0}

\* an object literal allocates a reference no live object has
FreshRef == CHOOSE r \in 1..(Cardinality(LiveRefs) + 1) :
                /\ r \notin LiveRefs
                /\ \A q \in 1..(r - 1) : q \in LiveRefs

\* the initial object hoisted to module level: allocated once, at load, and
\* handed to every instance
SharedInitialRef == IF LiveRefs = {} THEN FreshRef ELSE 1

\* the reference the useState literal of a mounting instance is allocated at
InitialRef == FreshRef

\* useEffect without a dependency array: scheduled after every render
DepsAlwaysChanged(prev, next) == TRUE

\* useEffect's dependency array is []: after the mount render the effect is
\* scheduled again only when some dependency differs (Object.is) from the last
DepsChanged(prev, next) == \E k \in 1..Len(next) : prev[k] # next[k]
EffectDeps == <<>>
EffectRescheduled == DepsChanged(EffectDeps, EffectDeps)

Variants == {"combined", "plain"}

-----------------------------------------------------------------------------
(* Inputs *)

Fragments ==
    { AppleWebKit, Safari, Wv, <<"W", "v">>, VersionSlash \o <<"4", ".", "0">>,
      VersionSlash, Chrome, <<"\n">> }

RECURSIVE Strings(_)
Strings(n) ==
    IF n = 0 THEN {<<>>}
    ELSE LET shorter == Strings(n - 1)
         IN  shorter \cup {s \o f : s \in shorter, f \in Fragments}

Vendors == {JSUndefined, JSString(<<>>), JSString(Wv), JSString(AppleWebKit)}

\* every navigator built from at most MaxFrags fragments
Navigators ==
    [userAgent : {JSUndefined} \cup {JSString(s) : s \in Strings(MaxFrags)},
     vendor : Vendors]

\* a few navigators, one for each outcome of the detection
SampleAgents ==
    { JSString(Wv), JSString(AppleWebKit), JSString(AppleWebKit \o Wv),
      JSString(AppleWebKit \o Safari) }
SampleNavigators ==
    [userAgent : SampleAgents, vendor : {JSUndefined}]
        \cup [userAgent : {JSUndefined, JSString(<<>>)}, vendor : {JSUndefined, JSString(Wv)}]

-----------------------------------------------------------------------------
(* The state machine *)

InitHooks ==
    /\ mounted = [i \in Instances |-> FALSE]
    /\ variant \in Variants
    /\ isWebView = [i \in Instances |-> NoObject]
    /\ pendingState = [i \in Instances |-> NoObject]
    /\ effectPending = [i \in Instances |-> FALSE]
    /\ memo = [i \in Instances |-> NoMemo]
    /\ returned = [i \in Instances |-> NoObject]
    /\ prevReturned = [i \in Instances |-> NoObject]
    /\ effectRuns = [i \in Instances |-> 0]
    /\ uaReads = [i \in Instances |-> 0]
    /\ effectError = [i \in Instances |-> FALSE]
    /\ log = {}

Init == navigator \in SampleNavigators /\ InitHooks

InitDetect == navigator \in Navigators /\ InitHooks

\* the mount render of instance i, committed:
\* useState stores the initial object, useEffect schedules the effect,
\* useMemo computes and caches, the state object is returned
Mount(i) ==
    /\ ~mounted[i]
    /\ LET obj == InitialState(variant, InitialRef)
       IN  /\ isWebView' = [isWebView EXCEPT ![i] = obj]
           /\ memo' = [memo EXCEPT ![i] =
                  IF variant = "combined" THEN [deps |-> obj.ref, value |-> obj] ELSE NoMemo]
           /\ returned' = [returned EXCEPT ![i] = obj]
    /\ mounted' = [mounted EXCEPT ![i] = TRUE]
    /\ effectPending' = [effectPending EXCEPT ![i] = TRUE]
    /\ UNCHANGED <<navigator, variant, pendingState, prevReturned, effectRuns,
                   uaReads, effectError, log>>

\* the passive effect of instance i, flushed after the commit
RunEffect(i) ==
    /\ mounted[i]
    /\ effectPending[i]
    /\ effectRuns[i] < MaxEffectRuns
    /\ LET userAgent == UserAgentOf(navigator)
           isAndroidWebView == IsAndroidWebView(userAgent)
           isIOSWebView == IsIOSWebView(userAgent)
       IN  IF ToStringThrows(userAgent)
           THEN /\ effectError' = [effectError EXCEPT ![i] = TRUE]
                /\ UNCHANGED <<pendingState, log>>
           ELSE /\ pendingState' = [pendingState EXCEPT ![i] =
                       NewStatus(variant, FreshRef, isIOSWebView, isAndroidWebView)]
                /\ log' = log \cup {[input |-> userAgent, ios |-> isIOSWebView,
                                     android |-> isAndroidWebView]}
                /\ UNCHANGED effectError
    /\ effectPending' = [effectPending EXCEPT ![i] = FALSE]
    /\ effectRuns' = [effectRuns EXCEPT ![i] = @ + 1]
    /\ uaReads' = [uaReads EXCEPT ![i] = @ + 1]
    /\ UNCHANGED <<navigator, mounted, variant, isWebView, memo, returned,
                   prevReturned>>

\* a re-render of instance i (its own state update or its parent's render);
\* React flushes the pending passive effects before it renders again
Render(i) ==
    /\ mounted[i]
    /\ ~effectPending[i]
    /\ LET state == IF pendingState[i] # NoObject THEN pendingState[i] ELSE isWebView[i]
           cell == IF variant = "combined" /\ memo[i].deps # state.ref
                   THEN [deps |-> state.ref, value |-> state]
                   ELSE memo[i]
       IN  /\ isWebView' = [isWebView EXCEPT ![i] = state]
           /\ memo' = [memo EXCEPT ![i] = cell]
           /\ returned' = [returned EXCEPT ![i] =
                  IF variant = "combined" THEN cell.value ELSE state]
    /\ pendingState' = [pendingState EXCEPT ![i] = NoObject]
    /\ prevReturned' = [prevReturned EXCEPT ![i] = returned[i]]
    /\ effectPending' = [effectPending EXCEPT ![i] = EffectRescheduled]
    /\ UNCHANGED <<navigator, mounted, variant, effectRuns, uaReads, effectError,
                   log>>

\* instance i unmounts: React discards its hook cells
Unmount(i) ==
    /\ mounted[i]
    /\ ~effectPending[i]
    /\ mounted' = [mounted EXCEPT ![i] = FALSE]
    /\ isWebView' = [isWebView EXCEPT ![i] = NoObject]
    /\ pendingState' = [pendingState EXCEPT ![i] = NoObject]
    /\ memo' = [memo EXCEPT ![i] = NoMemo]
    /\ returned' = [returned EXCEPT ![i] = NoObject]
    /\ prevReturned' = [prevReturned EXCEPT ![i] = NoObject]
    /\ effectRuns' = [effectRuns EXCEPT ![i] = 0]
    /\ uaReads' = [uaReads EXCEPT ![i] = 0]
    /\ effectError' = [effectError EXCEPT ![i] = FALSE]
    /\ UNCHANGED <<navigator, variant, effectPending, log>>

Next ==
    \E i \in Instances :
        \/ Mount(i)
        \/ RunEffect(i)
        \/ Render(i)
        \/ Unmount(i)

Spec == Init /\ [][Next]_vars

\* one instance over every navigator of the bound
NextDetect ==
    \/ Mount(1)
    \/ RunEffect(1)
    \/ Render(1)

SpecDetect == InitDetect /\ [][NextDetect]_vars

-----------------------------------------------------------------------------
(* Vocabulary of the properties *)

\* sub occurs in s as a contiguous substring
OccursAt(s, p, sub) ==
    p + Len(sub) - 1 <= Len(s) /\ SubSeq(s, p, p + Len(sub) - 1) = sub

Contains(s, sub) == \E p \in 1..Len(s) : OccursAt(s, p, sub)

\* `Version/`, at once a digit or a dot, and `Chrome` somewhere after it
LegacySignature(s) ==
    \E p \in 1..Len(s), q \in 1..Len(s) :
        /\ OccursAt(s, p, VersionSlash)
        /\ p + 8 <= Len(s)
        /\ s[p + 8] \in Digits \cup {"."}
        /\ q >= p + 9
        /\ OccursAt(s, q, Chrome)

\* the same, with no line terminator between the version and `Chrome`
LegacySignatureOnOneLine(s) ==
    \E p \in 1..Len(s), q \in 1..Len(s) :
        /\ OccursAt(s, p, VersionSlash)
        /\ p + 8 <= Len(s)
        /\ s[p + 8] \in Digits \cup {"."}
        /\ q >= p + 9
        /\ OccursAt(s, q, Chrome)
        /\ \A k \in (p + 9)..(q - 1) : s[k] \notin LineTerminators

\* the effect of instance i has run
Detected(i) == mounted[i] /\ effectRuns[i] >= 1

\* the status instance i has published: queued, or already the state
Published(i) == IF pendingState[i] # NoObject THEN pendingState[i] ELSE isWebView[i]

\* the string the detection of this runtime is applied to
Input == UserAgentOf(navigator)
InputIsString == Input.type = "string"

FlagsOf(o) == [f \in (DOMAIN o) \ {"ref"} |-> o[f]]
AllFalse(o) == \A f \in (DOMAIN o) \ {"ref"} : o[f] = FALSE

\* the render of instance i that applied the published status has happened
Settled(i) == Detected(i) /\ pendingState[i] = NoObject

\* the references instance i holds
RefsOf(i) == {isWebView[i].ref, pendingState[i].ref, returned[i].ref} \ {0}

-----------------------------------------------------------------------------
(* C1: for every string s the detection is applied to, ios is published true *)
(* if and only if s contains `AppleWebKit` and does not contain `Safari`     *)
(* anywhere; a string with both yields ios = false whatever their order.     *)
C1_IosIffAppleWebKitWithoutSafari ==
    \A i \in Instances :
        (Detected(i) /\ InputIsString) =>
            (Published(i).ios <=>
                (Contains(Input.chars, AppleWebKit) /\ ~Contains(Input.chars, Safari)))

\* `AppleWebKitSafari`, adjacent, was classified and ios came out false
C1_Witness ==
    /\ Detected(1)
    /\ InputIsString
    /\ Contains(Input.chars, AppleWebKit \o Safari)
    /\ Published(1).ios = FALSE

(* C2: for every string containing the case-sensitive literal `wv` at any   *)
(* position, android is published true, whatever the rest of the string and *)
(* whatever the ios flag.                                                   *)
C2_WvImpliesAndroid ==
    \A i \in Instances :
        (Detected(i) /\ InputIsString /\ Contains(Input.chars, Wv)) =>
            Published(i).android = TRUE

\* `wv` not at the start, in a string that is also an iOS WebView
C2_Witness ==
    /\ Detected(1)
    /\ InputIsString
    /\ Contains(Input.chars, Wv)
    /\ ~OccursAt(Input.chars, 1, Wv)
    /\ Published(1).ios = TRUE
    /\ Published(1).android = TRUE

(* C3, as claimed: a string in which `Version/` is followed by a dotted     *)
(* numeric version and `Chrome` then appears anywhere in the rest, whatever *)
(* lies between, gets android = true; a string with neither `wv` nor such a *)
(* sequence gets android = false.                                           *)
C3_Original ==
    \A i \in Instances :
        (Detected(i) /\ InputIsString) =>
            /\ LegacySignature(Input.chars) => Published(i).android = TRUE
            /\ (~Contains(Input.chars, Wv) /\ ~LegacySignature(Input.chars)) =>
                   Published(i).android = FALSE

(* C3, amended: android is published true if and only if the string holds   *)
(* `wv`, or holds `Version/` followed at once by a digit or a dot and then  *)
(* `Chrome` later with no line terminator between the two.                  *)
C3_AndroidIffWvOrLegacyOnOneLine ==
    \A i \in Instances :
        (Detected(i) /\ InputIsString) =>
            (Published(i).android <=>
                (Contains(Input.chars, Wv) \/ LegacySignatureOnOneLine(Input.chars)))

\* the legacy signature alone, with other text between the version and Chrome
C3_Witness ==
    /\ Detected(1)
    /\ InputIsString
    /\ ~Contains(Input.chars, Wv)
    /\ Contains(Input.chars, VersionSlash \o <<"4", ".", "0", "W", "v">>)
    /\ LegacySignatureOnOneLine(Input.chars)
    /\ Published(1).android = TRUE

(* C4: in the variant that defines it, `combined` equals ios AND android in *)
(* every state object the hook holds or returns: the initial one and the    *)
(* one published by the detection.                                          *)
C4_CombinedIsIosAndAndroid ==
    \A i \in Instances :
        (mounted[i] /\ variant = "combined") =>
            \A o \in {isWebView[i], returned[i], Published(i)} :
                o.combined = (o.ios /\ o.android)

\* a render returned combined = true
C4_Witness ==
    /\ variant = "combined"
    /\ Settled(1)
    /\ returned[1].combined = TRUE

(* C5, as claimed: whenever navigator.userAgent is undefined or empty the   *)
(* detection raises no error and publishes all flags false, for every value *)
(* of navigator.vendor.                                                     *)
C5_Original ==
    \A i \in Instances :
        (Detected(i) /\ ~Truthy(navigator.userAgent)) =>
            /\ ~effectError[i]
            /\ AllFalse(Published(i))

(* C5, amended: whenever navigator.userAgent is undefined or empty the      *)
(* detection raises no error and classifies navigator.vendor in its place   *)
(* (an undefined vendor as the text `undefined`): all flags are false when  *)
(* the vendor is undefined or empty, and otherwise they are the flags of    *)
(* the vendor string.                                                       *)
C5_FallsBackToVendor ==
    \A i \in Instances :
        (Detected(i) /\ ~Truthy(navigator.userAgent)) =>
            LET text == ToString(navigator.vendor)
            IN  /\ ~effectError[i]
                /\ ~Truthy(navigator.vendor) => AllFalse(Published(i))
                /\ Published(i).android <=>
                       (Contains(text, Wv) \/ LegacySignatureOnOneLine(text))
                /\ Published(i).ios <=>
                       (Contains(text, AppleWebKit) /\ ~Contains(text, Safari))

\* neither property is there, and a render returned all flags false
C5_Witness ==
    /\ navigator.userAgent = JSUndefined
    /\ navigator.vendor = JSUndefined
    /\ Settled(1)
    /\ ~effectError[1]
    /\ AllFalse(returned[1])

(* C6: the effect of a mounted instance runs exactly once, at mount: it has *)
(* not run while it is pending, it has run once afterwards whatever the     *)
(* number of re-renders, and navigator.userAgent is read once per run.      *)
C6_EffectRunsOncePerMount ==
    \A i \in Instances :
        mounted[i] =>
            /\ effectRuns[i] = (IF effectPending[i] THEN 0 ELSE 1)
            /\ uaReads[i] = effectRuns[i]

\* two re-renders after the publish, and still one run
C6_Witness ==
    /\ Settled(1)
    /\ prevReturned[1] = returned[1]
    /\ effectRuns[1] = 1
    /\ uaReads[1] = 1

(* C7: two successive renders of a mounted instance between which no flag   *)
(* value changed return the identical object reference.                     *)
C7_StableReference ==
    \A i \in Instances :
        (mounted[i] /\ prevReturned[i] # NoObject
                    /\ FlagsOf(prevReturned[i]) = FlagsOf(returned[i])) =>
            prevReturned[i].ref = returned[i].ref

C9_LifecycleState ==
    \A i \in Instances :
        mounted[i] =>
            /\ effectRuns[i] <= 1
            /\ ~Detected(i) => AllFalse(returned[i])
            /\ Settled(i) =>
                   /\ returned[i].ios = IsIOSWebView(Input)
                   /\ returned[i].android = IsAndroidWebView(Input)
                   /\ returned[i].ref = isWebView[i].ref

C9_LifecycleStep ==
    \A i \in Instances :
        (Settled(i) /\ mounted'[i]) =>
            /\ FlagsOf(returned'[i]) = FlagsOf(returned[i])
            /\ effectRuns'[i] = effectRuns[i]

C9_StatusLifecycle == []C9_LifecycleState /\ [][C9_LifecycleStep]_vars

\* re-rendered twice after a publish that set a flag
C9_Witness ==
    /\ Settled(1)
    /\ prevReturned[1] = returned[1]
    /\ returned[1].ios = TRUE

(* C10: instances hold separate status records: no object reference is held *)
(* by two instances, and a mount, publish, render or unmount of one         *)
(* instance leaves the state, the pending update and the returned object of *)
(* every other instance as they were.                                       *)
C10_NoSharedRecord ==
    \A i \in Instances, j \in Instances :
        (i # j /\ mounted[i] /\ mounted[j]) => RefsOf(i) \cap RefsOf(j) = {}

StepOf(i) ==
    \/ mounted'[i] # mounted[i]
    \/ effectRuns'[i] # effectRuns[i]
    \/ isWebView'[i] # isWebView[i]
    \/ prevReturned'[i] # prevReturned[i]

C10_OthersUnchanged ==
    \A i \in Instances, j \in Instances :
        (i # j /\ StepOf(i)) =>
            /\ isWebView'[j] = isWebView[j]
            /\ pendingState'[j] = pendingState[j]
            /\ returned'[j] = returned[j]
            /\ mounted'[j] = mounted[j]

C10_InstanceIndependence == []C10_NoSharedRecord /\ [][C10_OthersUnchanged]_vars

\* both instances mounted and settled on their own objects
C10_Witness ==
    /\ Settled(1)
    /\ Settled(2)
    /\ returned[1].ref # returned[2].ref
    /\ FlagsOf(returned[1]) = FlagsOf(returned[2])

====
